---- MODULE Spec2Model ----
(***************************************************************************)
(* A model of pystruct's TypedCRF (pystruct/models/typed_crf.py): the      *)
(* construction of the type schema and its offset tables, the instance     *)
(* validator _check_size_x, the label validator _check_size_xy and the     *)
(* unary potential computation _get_unary_potentials.                      *)
(*                                                                         *)
(* Python values are modelled as follows.  A Python list or a 1-d array is *)
(* a TLA+ sequence; Python's index i is position i+1.  A value that may be *)
(* None is a record with a "type" field: None, List(s) or an ndarray       *)
(* record [type, ndim, shape, data].  The outcome of a call is a record    *)
(* [kind |-> "return", ...] or [kind |-> "raise", exc, msg, typ].          *)
(***************************************************************************)
EXTENDS Integers, Sequences, FiniteSets, TLC

VARIABLES pc, args, self, x, Y, w, ret, arg

vars == <<pc, args, self, x, Y, w, ret, arg>>

-----------------------------------------------------------------------------
(* Bounds of the model.                                                    *)

MaxTypes == 2

MaxStates == 2

MaxFeatures == 2

\* nodes of a labelled instance, all types together
MaxNodes == 2

\* rows of a node feature table that carries data; edge ends range over -1..MaxRows
MaxRows == 1

\* rows of an edge table
MaxEdges == 1

\* edge tables of an instance that are not None
MaxEdgeTables == 2

\* features and weights range over 0..MaxValue
MaxValue == 1

-----------------------------------------------------------------------------
(* Python values.                                                          *)

None == [type |-> "None"]

List(s) == [type |-> "list", items |-> s]

IsNone(v) == v.type = "None"

\* An n-dimensional array: data is the sequence of its rows (of its elements
\* when ndim = 1).
NdArray(d, sh, rows) == [type |-> "ndarray", ndim |-> d, shape |-> sh, data |-> rows]

Return(v) == [kind |-> "return", value |-> v]

Raise(e, m, t) == [kind |-> "raise", exc |-> e, msg |-> m, typ |-> t]

NotCalled == [kind |-> "none"]

\* The outcome of a run of checks that raised nothing.
Pass == [kind |-> "pass"]

Min2(a, b) == IF a < b THEN a ELSE b

RECURSIVE Sum(_)
Sum(s) == IF s = <<>> THEN 0 ELSE Head(s) + Sum(Tail(s))

\* Python's s[a:b] for 0 <= a; the slice is clamped to the length of s.
Slice(s, a, b) == SubSeq(s, a + 1, Min2(b, Len(s)))

\* zip(s1, s2, ...) stops at the shortest of its arguments.
ZipLen2(s1, s2) == Min2(Len(s1), Len(s2))

ZipLen3(s1, s2, s3) == Min2(Len(s1), Min2(Len(s2), Len(s3)))

RECURSIVE MinOf(_)
MinOf(s) == IF Len(s) = 1 THEN s[1] ELSE Min2(s[1], MinOf(Tail(s)))

RECURSIVE MaxOf(_)
MaxOf(s) == IF Len(s) = 1 THEN s[1]
            ELSE LET m == MaxOf(Tail(s)) IN IF s[1] > m THEN s[1] ELSE m

Ones(n) == [i \in 1..n |-> 1]

RECURSIVE Hstack(_)
Hstack(l) == IF l = <<>> THEN <<>> ELSE Head(l) \o Hstack(Tail(l))

-----------------------------------------------------------------------------
(* TypedCRF.__init__                                                       *)

\* self.l_n_edge_states = [ n1 * n2 for n1 in l_n_states for n2 in l_n_states ]
EdgeStates(l_n_states) ==
    LET n == Len(l_n_states) IN
    [k \in 1..(n * n) |-> l_n_states[((k - 1) \div n) + 1] * l_n_states[((k - 1) % n) + 1]]

\* self.size_unaries = sum(n_states * n_features for ... in zip(l_n_states, l_n_features))
RECURSIVE SizeUnaries(_, _)
SizeUnaries(l_n_states, l_n_features) ==
    IF l_n_states = <<>> \/ l_n_features = <<>> THEN 0
    ELSE Head(l_n_states) * Head(l_n_features)
         + SizeUnaries(Tail(l_n_states), Tail(l_n_features))

\* self._l_type_startindex = [ sum(l_n_states[:i]) for i in range(n_types+1) ]
TypeStartIndex(l_n_states, n_types) ==
    [k \in 1..(n_types + 1) |-> Sum(Slice(l_n_states, 0, k - 1))]

\* self._a_feature_slice_by_typ: slice(sum(l_n_features[:i]), sum(l_n_features[:i+1]))
FeatureSlices(l_n_features, n_types) ==
    [k \in 1..n_types |-> <<Sum(Slice(l_n_features, 0, k - 1)), Sum(Slice(l_n_features, 0, k))>>]

\* The increment of the running offset i_state_start after the pair (typ1, typ2).
EdgeIncrementWrong(typ1_n_states, typ2_n_states) == typ1_n_states * typ1_n_states

EdgeIncrement(typ1_n_states, typ2_n_states) == typ1_n_states * typ2_n_states

\* The value of i_state_start when the two nested loops over l_n_states reach
\* the k-th pair (k = typ1 * n + typ2) in row-major order.
RECURSIVE IStateStart(_, _)
IStateStart(l_n_states, k) ==
    IF k = 0 THEN 0
    ELSE LET n == Len(l_n_states) IN
         IStateStart(l_n_states, k - 1)
         + EdgeIncrement(l_n_states[((k - 1) \div n) + 1], l_n_states[((k - 1) % n) + 1])

\* self.a_startindex_by_typ_typ[typ1, typ2] = i_state_start; the matrix is kept
\* as a function on (0..n_types-1) x (0..n_types-1).  The array is of dtype
\* uint32; the offsets of the model stay far below 2^32.
StartIndexByTypTyp(l_n_states, n_types) ==
    [p \in (0..(n_types - 1)) \X (0..(n_types - 1)) |->
        IStateStart(l_n_states, p[1] * Len(l_n_states) + p[2])]

\* The first type i whose class weight list has not n_states entries, or -1.
BadClassWeightType(lcw, l_n_states) ==
    LET bad == {i \in 0..(Len(l_n_states) - 1) : Len(lcw[i + 1]) # l_n_states[i + 1]}
    IN  IF bad = {} THEN -1 ELSE CHOOSE i \in bad : \A j \in bad : i <= j

ClassWeightDefault(l_n_states) == [i \in 1..Len(l_n_states) |-> Ones(l_n_states[i])]

\* if l_class_weight: ... : None and the empty list are both false.
ClassWeightGiven(l_class_weight) ==
    ~IsNone(l_class_weight) /\ l_class_weight.items # <<>>

\* The object once __init__ has run to its end.
Built(a, lcw) ==
    [type |-> "TypedCRF",
     inference_method |-> "ad3+",
     inference_calls |-> 0,
     inference_exception |-> FALSE,
     n_types |-> a.n_types,
     l_n_states |-> a.l_n_states,
     n_states |-> Sum(a.l_n_states),
     l_n_features |-> a.l_n_features.items,
     n_features |-> Sum(a.l_n_features.items),
     l_n_edge_states |-> EdgeStates(a.l_n_states),
     l_class_weight |-> lcw,
     class_weight |-> Hstack(lcw),
     size_unaries |-> SizeUnaries(a.l_n_states, a.l_n_features.items),
     size_joint_feature |-> SizeUnaries(a.l_n_states, a.l_n_features.items),
     l_type_startindex |-> TypeStartIndex(a.l_n_states, a.n_types),
     a_feature_slice_by_typ |-> FeatureSlices(a.l_n_features.items, a.n_types),
     a_startindex_by_typ_typ |-> StartIndexByTypTyp(a.l_n_states, a.n_types)]

\* The outcome of TypedCRF(n_types, l_n_states, l_n_features, l_class_weight=...):
\* the exception raised, or the object.
__init__(a) ==
    IF Len(a.l_n_states) # a.n_types
    THEN Raise("ValueError", "Expected 1 number of states per node type.", <<>>)
    ELSE IF ~IsNone(a.l_n_features) /\ Len(a.l_n_features.items) # a.n_types
    THEN Raise("ValueError", "Expected 1 number pf features per node type.", <<>>)
    ELSE IF IsNone(a.l_n_features)
    THEN \* sum(self.l_n_features) with l_n_features None
         Raise("TypeError", "'NoneType' object is not iterable", <<>>)
    ELSE IF ClassWeightGiven(a.l_class_weight)
    THEN IF Len(a.l_class_weight.items) # a.n_types
         THEN Raise("ValueError", "Expected 1 class weight list per node type.", <<>>)
         ELSE LET i == BadClassWeightType(a.l_class_weight.items, a.l_n_states) IN
              IF i # -1
              THEN Raise("ValueError",
                         "Expected 1 class weight per state per node type. Wrong for type %d", <<i>>)
              ELSE Return(Built(a, a.l_class_weight.items))
    ELSE Return(Built(a, ClassWeightDefault(a.l_n_states)))

-----------------------------------------------------------------------------
(* Accessors of an instance x = (node features by type, edges by type pair). *)

\* _get_node_features(x, bClean): with bClean, None is replaced by an empty
\* array of shape (0, n_features); the zip stops at the shorter of x[0] and
\* l_n_features.
_get_node_features(s, xx, bClean) ==
    IF bClean
    THEN [k \in 1..ZipLen2(xx.nodes, s.l_n_features) |->
            IF IsNone(xx.nodes[k]) THEN NdArray(2, <<0, s.l_n_features[k]>>, <<>>)
            ELSE xx.nodes[k]]
    ELSE xx.nodes

\* _get_edges(x): x[1]
_get_edges(xx) == xx.edges

\* _get_edges_by_type(x, typ1, typ2): x[1][typ1*n_types+typ2]
_get_edges_by_type(s, xx, typ1, typ2) == xx.edges[typ1 * s.n_types + typ2 + 1]

\* edges[:, c] of a two-column array, c in {0, 1}
Column(edges, c) == [r \in 1..Len(edges.data) |-> edges.data[r][c + 1]]

-----------------------------------------------------------------------------
(* TypedCRF._check_size_xy                                                 *)

\* if np.min(Y_typ) < 0
NegativeLabelSkipped(Y_typ) == FALSE

NegativeLabel(Y_typ) == MinOf(Y_typ) < 0

\* if np.min(Y_typ) < self._l_type_startindex[typ]
BelowTypeStart(s, typ, Y_typ) == MinOf(Y_typ) < s.l_type_startindex[typ + 1]

\* if np.max(Y_typ) >= self._l_type_startindex[typ+1]
AboveTypeEndOffByOne(s, typ, Y_typ) == MaxOf(Y_typ) > s.l_type_startindex[typ + 2]

AboveTypeEnd(s, typ, Y_typ) == MaxOf(Y_typ) >= s.l_type_startindex[typ + 2]

\* The loop over zip(range(n_types), l_node_features, l_n_states), entered at
\* type typ with i_start, up to the return or the first exception.  np.min of
\* an empty run raises ValueError.
RECURSIVE CheckLabelRuns(_, _, _, _, _)
CheckLabelRuns(s, l_node_features, labels, typ, i_start) ==
    IF typ >= ZipLen3([i \in 1..s.n_types |-> i - 1], l_node_features, s.l_n_states)
    THEN Return("True")
    ELSE LET nb_nodes == l_node_features[typ + 1].shape[1]
             Y_typ == Slice(labels, i_start, i_start + nb_nodes)
         IN  IF Y_typ = <<>>
             THEN Raise("ValueError",
                        "zero-size array to reduction operation minimum which has no identity",
                        <<>>)
             ELSE IF NegativeLabel(Y_typ)
             THEN Raise("ValueError", "Got a negative label for type %d", <<typ>>)
             ELSE IF BelowTypeStart(s, typ, Y_typ)
             THEN Raise("InconsistentLabel", "labels of type %d start at %d",
                        <<typ, s.l_type_startindex[typ + 1]>>)
             ELSE IF AboveTypeEnd(s, typ, Y_typ)
             THEN Raise("InconsistentLabel", "labels of type %d end at %d",
                        <<typ, s.l_type_startindex[typ + 2] - 1>>)
             ELSE CheckLabelRuns(s, l_node_features, labels, typ + 1, i_start + nb_nodes)

\* nb_nodes = sum(nf.shape[0] for nf in l_node_features)
NbNodes(l_node_features) ==
    Sum([k \in 1..Len(l_node_features) |-> l_node_features[k].shape[1]])

_check_size_xy(s, xx, yy) ==
    IF IsNone(yy) THEN Return("None")
    ELSE LET l_node_features == _get_node_features(s, xx, TRUE)
             nb_nodes == NbNodes(l_node_features)
         IN  IF yy.shape[1] # nb_nodes
             THEN Raise("ValueError", "Expected 1 label for each of the %d nodes. Gopt %d labels.",
                        <<nb_nodes, yy.shape[1]>>)
             ELSE CheckLabelRuns(s, l_node_features, yy.data, 0, 0)

-----------------------------------------------------------------------------
(* TypedCRF._check_size_x                                                  *)

\* Whether a generator that raises StopIteration ends its for loop with a
\* RuntimeError (PEP 479, Python 3.7 and later).  The package declares
\* Python 2.6, 2.7 and 3.3, where the loop just ends.
GeneratorStop == FALSE

\* for typ, typ_features in enumerate(l_node_features): the first failure from
\* type typ on.  A None table has no attribute shape.
RECURSIVE CheckNodeFeatures(_, _, _)
CheckNodeFeatures(s, l_node_features, typ) ==
    IF typ >= Len(l_node_features) THEN Pass
    ELSE IF IsNone(l_node_features[typ + 1])
    THEN Raise("AttributeError", "'NoneType' object has no attribute 'shape'", <<>>)
    ELSE IF l_node_features[typ + 1].shape[2] # s.l_n_features[typ + 1]
    THEN Raise("ValueError", "Expected %d features for type %d", <<s.l_n_features[typ + 1], typ>>)
    ELSE CheckNodeFeatures(s, l_node_features, typ + 1)

\* The shape test of one edge array; it is skipped for None only.
EdgeShapeOK(edges) == IsNone(edges) \/ (edges.ndim = 2 /\ edges.shape[2] = 2)

\* for edges in l_edges: the first failure from position k on.
RECURSIVE CheckEdgeShapes(_, _)
CheckEdgeShapes(l_edges, k) ==
    IF k > Len(l_edges) THEN Pass
    ELSE IF EdgeShapeOK(l_edges[k]) THEN CheckEdgeShapes(l_edges, k + 1)
    ELSE IF l_edges[k].ndim # 2
    THEN Raise("ValueError", "Expected a 2 dimensions edge arrays", <<>>)
    ELSE Raise("ValueError", "Expected 2 columns in edge arrays", <<>>)

\* if edges is None or len(edges) == 0: continue
NoEdgesNoneOnly(edges) == IsNone(edges)

NoEdges(edges) == IsNone(edges) \/ edges.shape[1] = 0

\* if max(nodes2) >= l_node_features[typ2].shape[0]
TargetOutOfRangeOffByOne(nodes2, n_nodes) == MaxOf(nodes2) > n_nodes

TargetOutOfRange(nodes2, n_nodes) == MaxOf(nodes2) >= n_nodes

\* The checks of the edges of one pair of types.
CheckEdgesOfPair(l_node_features, edges, typ1, typ2) ==
    LET nodes1 == Column(edges, 0)
        nodes2 == Column(edges, 1)
    IN  IF nodes1 = <<>>
        THEN Raise("ValueError", "min() arg is an empty sequence", <<>>)
        ELSE IF MinOf(nodes1) < 0 \/ MinOf(nodes2) < 0
        THEN Raise("ValueError",
                   "At least one edge points to negative and therefore invalid node index: type %d to type %d",
                   <<typ1, typ2>>)
        ELSE IF MaxOf(nodes1) >= l_node_features[typ1 + 1].shape[1]
        THEN Raise("ValueError",
                   "At least one edge starts from a non-existing node index: type %d to type %d",
                   <<typ1, typ2>>)
        ELSE IF TargetOutOfRange(nodes2, l_node_features[typ2 + 1].shape[1])
        THEN Raise("ValueError",
                   "At least one edge points to a non-existing node index: type %d to type %d",
                   <<typ1, typ2>>)
        ELSE Pass

\* for typ1, typ2 in self._iter_type_pairs(): the loop entered at the k-th
\* pair (k = typ1 * n_types + typ2), up to the return or the first exception.
RECURSIVE CheckTypePairs(_, _, _, _)
CheckTypePairs(s, xx, l_node_features, k) ==
    IF k >= s.n_types * s.n_types
    THEN IF GeneratorStop
         THEN Raise("RuntimeError", "generator raised StopIteration", <<>>)
         ELSE Return("True")
    ELSE LET typ1 == k \div s.n_types
             typ2 == k % s.n_types
         IN  IF k + 1 > Len(xx.edges)
             THEN Raise("IndexError", "list index out of range", <<>>)
             ELSE LET edges == _get_edges_by_type(s, xx, typ1, typ2) IN
                  IF NoEdges(edges)
                  THEN CheckTypePairs(s, xx, l_node_features, k + 1)
                  ELSE LET r == CheckEdgesOfPair(l_node_features, edges, typ1, typ2) IN
                       IF r = Pass
                       THEN CheckTypePairs(s, xx, l_node_features, k + 1)
                       ELSE r

_check_size_x(s, xx) ==
    LET l_node_features == _get_node_features(s, xx, FALSE) IN
    IF Len(l_node_features) # s.n_types
    THEN Raise("ValueError", "Expected one node feature array per node type.", <<>>)
    ELSE LET r1 == CheckNodeFeatures(s, l_node_features, 0) IN
         IF r1 # Pass THEN r1
         ELSE LET r2 == CheckEdgeShapes(_get_edges(xx), 1) IN
              IF r2 # Pass THEN r2
              ELSE CheckTypePairs(s, xx, l_node_features, 0)

-----------------------------------------------------------------------------
(* TypedCRF._get_unary_potentials                                          *)

\* StructuredModel._check_size_w: the weight vector has size_joint_feature
\* entries.
_check_size_w(s, ww) ==
    IF Len(ww) # s.size_joint_feature
    THEN Raise("ValueError", "Got w of wrong shape. Expected %s, got %s",
               <<s.size_joint_feature, Len(ww)>>)
    ELSE Pass

\* v.reshape(r, c): row-major
Reshape(v, r, c) ==
    NdArray(2, <<r, c>>, [i \in 1..r |-> [j \in 1..c |-> v[(i - 1) * c + j]]])

\* m.T
Transpose(m) ==
    NdArray(2, <<m.shape[2], m.shape[1]>>,
            [j \in 1..m.shape[2] |-> [i \in 1..m.shape[1] |-> m.data[i][j]]])

RECURSIVE DotRow(_, _, _, _)
DotRow(row, m, j, f) ==
    IF f = 0 THEN 0 ELSE DotRow(row, m, j, f - 1) + row[f] * m.data[f][j]

\* np.dot(a, b) of two 2-d arrays with a.shape[1] = b.shape[0]
Dot(a, b) ==
    NdArray(2, <<a.shape[1], b.shape[2]>>,
            [i \in 1..a.shape[1] |-> [j \in 1..b.shape[2] |-> DotRow(a.data[i], b, j, a.shape[2])]])

\* w[i_w:i_w+n_w].reshape(n_states, n_features).T
WeightMatrixNoTranspose(wslice, n_states, n_features) == Reshape(wslice, n_features, n_states)

WeightMatrix(wslice, n_states, n_features) == Transpose(Reshape(wslice, n_states, n_features))

\* The loop of _get_unary_potentials before its k-th turn, with the running
\* offset i_w and the tables appended so far, up to the return, the failing
\* assert or the first exception of numpy.
RECURSIVE UnaryLoop(_, _, _, _, _, _)
UnaryLoop(s, l_node_features, ww, k, i_w, l_unary_potentials) ==
    IF k > ZipLen3(l_node_features, s.l_n_states, s.l_n_features)
    THEN IF i_w = s.size_unaries
         THEN Return(l_unary_potentials)
         ELSE Raise("AssertionError", "", <<i_w>>)
    ELSE LET features == l_node_features[k]
             n_states == s.l_n_states[k]
             n_features == s.l_n_features[k]
             n_w == n_states * n_features
             wslice == Slice(ww, i_w, i_w + n_w)
         IN  IF Len(wslice) # n_w
             THEN Raise("ValueError", "cannot reshape array", <<k - 1>>)
             ELSE IF features.shape[2] # n_features
             THEN Raise("ValueError", "shapes not aligned", <<k - 1>>)
             ELSE UnaryLoop(s, l_node_features, ww, k + 1, i_w + n_w,
                            Append(l_unary_potentials,
                                   Dot(features, WeightMatrix(wslice, n_states, n_features))))

_get_unary_potentials(s, xx, ww) ==
    LET r == _check_size_w(s, ww) IN
    IF r # Pass THEN r
    ELSE UnaryLoop(s, _get_node_features(s, xx, TRUE), ww, 1, 0, <<>>)

-----------------------------------------------------------------------------
(* TypedCRF.setInferenceException                                          *)

\* self.inference_exception = b; return self.inference_exception
setInferenceExceptionStuck(s, b) == s

setInferenceException(s, b) == [s EXCEPT !.inference_exception = b]

-----------------------------------------------------------------------------
(* The inputs.                                                             *)

Seqs(S, lo, hi) == UNION {[1..n -> S] : n \in lo..hi}

\* Constructor arguments of any shape: the lists may be too short or too long
\* for n_types, l_n_features may be None, the class weights may be None, the
\* empty list, or a list of vectors of any length.
AnyArgs ==
    [n_types : 1..MaxTypes,
     l_n_states : Seqs(1..MaxStates, 1, MaxTypes),
     l_n_features : {None} \cup {List(f) : f \in Seqs(0..MaxFeatures, 1, MaxTypes)},
     l_class_weight : {None, List(<<>>)} \cup
        UNION {{List([i \in 1..Len(ls) |-> [j \in 1..ls[i] |-> c]]) :
                    ls \in Seqs(1..MaxStates, 1, MaxTypes)} : c \in 1..2}]

\* Constructor arguments __init__ accepts, with the default class weights.
GoodArgs(StateCounts, FeatureCounts) ==
    UNION {[n_types : {n},
            l_n_states : [1..n -> StateCounts],
            l_n_features : {List(f) : f \in [1..n -> FeatureCounts]},
            l_class_weight : {None}] : n \in 1..MaxTypes}

\* Node feature tables of r rows and c columns over the values V.
Tables(r, c, V) == {NdArray(2, <<r, c>>, d) : d \in [1..r -> [1..c -> V]]}

\* Edge arrays: an empty one-dimensional one, two-dimensional ones without
\* columns and with three columns, and arrays of up to MaxEdges pairs over -1..MaxRows.
OddEdges ==
    {NdArray(1, <<0>>, <<>>), NdArray(2, <<0, 0>>, <<>>),
     NdArray(2, <<1, 3>>, <<(<<0, 0, 0>>)>>)}

PairEdges ==
    UNION {Tables(r, 2, (-1)..MaxRows) : r \in 0..MaxEdges}

NoInstance == [nodes |-> <<>>, edges |-> <<>>]

Fresh == [init |-> NotCalled, _check_size_x |-> NotCalled, _check_size_xy |-> NotCalled,
          _get_unary_potentials |-> NotCalled, setInferenceException |-> NotCalled]

InitCommon ==
    /\ pc = "new"
    /\ self = None
    /\ ret = Fresh
    /\ arg = <<>>

\* The state after model = TypedCRF(...) has returned.
InitBuilt ==
    /\ pc = "ready"
    /\ self = __init__(args).value
    /\ ret = [Fresh EXCEPT !.init = Return("TypedCRF")]
    /\ arg = <<>>

\* Construction alone.
InitSchema ==
    /\ InitCommon
    /\ args \in AnyArgs
    /\ x = NoInstance
    /\ Y = None
    /\ w = <<>>

\* Labelled instances of a model already built: each type has a missing table
\* or a table of nodes, MaxNodes nodes at most in the instance; the labels range
\* from -1 to the total number of states and there are as many as nodes, one
\* less or one more.
NodeCount(t) == IF IsNone(t) THEN 0 ELSE t.shape[1]

RECURSIVE TotalNodes(_)
TotalNodes(tables) ==
    IF tables = <<>> THEN 0 ELSE NodeCount(Head(tables)) + TotalNodes(Tail(tables))

LabelVectors(a, tables) ==
    LET n == TotalNodes(tables)
        V == (-1)..Sum(a.l_n_states)
    IN  {None} \cup {NdArray(1, <<n>>, d) : d \in [1..n -> V]}
        \cup {NdArray(1, <<n + 1>>, [i \in 1..(n + 1) |-> 0])}
        \cup {NdArray(1, <<m>>, [i \in 1..m |-> 0]) : m \in {n - 1} \cap Nat}

InitLabels ==
    /\ args \in GoodArgs(1..MaxStates, {1})
    /\ InitBuilt
    /\ \E tables \in [1..args.n_types ->
                        {None} \cup UNION {Tables(r, 1, {0}) : r \in 0..MaxNodes}] :
          /\ TotalNodes(tables) <= MaxNodes
          /\ x = [nodes |-> tables, edges |-> [k \in 1..(args.n_types * args.n_types) |-> None]]
          /\ Y \in LabelVectors(args, tables)
    /\ w = <<>>

\* Instances of a model already built, for the instance validator: tables of up to MaxRows nodes, with
\* the declared number of columns or another one, or missing, one table too few
\* or as many as types.  At most MaxEdgeTables edge arrays are not None; they
\* are any arrays when every table is as declared; otherwise (the validator
\* fails before it reads an edge) they are empty.
InitInstance ==
    /\ args \in GoodArgs({1}, {1})
    /\ InitBuilt
    /\ \E n \in {args.n_types - 1, args.n_types} :
         \E tables \in [1..n -> {None} \cup UNION {Tables(r, 1, {0}) \cup Tables(r, 2, {0})
                                                      : r \in 0..MaxRows}] :
         \E edges \in [1..(args.n_types * args.n_types) -> {None} \cup OddEdges \cup PairEdges] :
            /\ Cardinality({k \in DOMAIN edges : ~IsNone(edges[k])}) <= MaxEdgeTables
            /\ (n # args.n_types \/ \E k \in 1..n : IsNone(tables[k]) \/ tables[k].shape[2] # 1)
                  => \A k \in DOMAIN edges : edges[k] \in {None, NdArray(2, <<0, 2>>, <<>>)}
            /\ x = [nodes |-> tables, edges |-> edges]
    /\ Y = None
    /\ w = <<>>

\* Instances with feature values and weight vectors, of a model already built: a table per type or one
\* too few, each table missing, of up to MaxRows rows with the declared number
\* of columns, or with one column too many; no edges; the weight vector has
\* size_unaries entries or one more.
InitUnary ==
    /\ args \in GoodArgs(1..MaxStates, 0..MaxFeatures)
    /\ InitBuilt
    /\ \E n \in {args.n_types - 1, args.n_types} :
         \E tables \in [1..n -> {None} \cup Tables(1, MaxFeatures + 1, {0})
                                  \cup UNION {Tables(r, c, 0..MaxValue) :
                                                r \in 0..MaxRows, c \in 0..MaxFeatures}] :
            /\ \A k \in 1..n : ~IsNone(tables[k]) /\ tables[k].shape[2] <= MaxFeatures
                                  => tables[k].shape[2] = args.l_n_features.items[k]
            /\ x = [nodes |-> tables, edges |-> [k \in 1..(args.n_types * args.n_types) |-> None]]
    /\ Y = None
    /\ LET size == SizeUnaries(args.l_n_states, args.l_n_features.items) IN
       w \in [1..size -> 0..MaxValue] \cup {[i \in 1..(size + 1) |-> 0]}

\* A model under use: a constructor call that succeeds or fails; per type a
\* missing table, a table of MaxRows nodes or one with a column too many; no
\* edge, an edge between nodes of the first type or a dangling one; labels and
\* weights that pass or fail their checks.
Init ==
    /\ InitCommon
    /\ args \in GoodArgs(1..MaxStates, {1})
                  \cup {a \in AnyArgs : a.n_types = 1 /\ IsNone(a.l_class_weight)}
    /\ \E tables \in [1..args.n_types -> {None} \cup Tables(1, 2, {0})
                                           \cup Tables(MaxRows, 1, {0})] :
         \E e \in {None, NdArray(2, <<1, 2>>, <<(<<0, 0>>)>>),
                   NdArray(2, <<1, 2>>, <<(<<0, MaxRows>>)>>)} :
            /\ x = [nodes |-> tables,
                    edges |-> [k \in 1..(args.n_types * args.n_types) |->
                                  IF k = 1 THEN e ELSE None]]
            /\ LET n == TotalNodes(tables) IN
               Y \in {None, NdArray(1, <<n + 1>>, [i \in 1..(n + 1) |-> 0])}
                       \cup {NdArray(1, <<n>>, [i \in 1..n |-> v]) : v \in (-1)..1}
    /\ LET size == IF IsNone(args.l_n_features) THEN 0
                   ELSE SizeUnaries(args.l_n_states, args.l_n_features.items) IN
       w \in {[i \in 1..size |-> 1], [i \in 1..(size + 1) |-> 0]}

-----------------------------------------------------------------------------
(* The operations.                                                         *)

\* model = TypedCRF(n_types, l_n_states, l_n_features, l_class_weight=...)
Construct ==
    /\ pc = "new"
    /\ LET r == __init__(args) IN
          /\ pc' = IF r.kind = "return" THEN "ready" ELSE "failed"
          /\ self' = IF r.kind = "return" THEN r.value ELSE None
          /\ ret' = [ret EXCEPT !.init = IF r.kind = "return" THEN Return("TypedCRF") ELSE r]
    /\ UNCHANGED <<args, x, Y, w, arg>>

\* model._check_size_x(x)
Call_check_size_x ==
    /\ pc = "ready"
    /\ ret' = [ret EXCEPT !._check_size_x = _check_size_x(self, x)]
    /\ UNCHANGED <<pc, args, self, x, Y, w, arg>>

\* model._check_size_xy(x, Y)
Call_check_size_xy ==
    /\ pc = "ready"
    /\ ret' = [ret EXCEPT !._check_size_xy = _check_size_xy(self, x, Y)]
    /\ UNCHANGED <<pc, args, self, x, Y, w, arg>>

\* model._get_unary_potentials(x, w)
Call_get_unary_potentials ==
    /\ pc = "ready"
    /\ ret' = [ret EXCEPT !._get_unary_potentials = _get_unary_potentials(self, x, w)]
    /\ UNCHANGED <<pc, args, self, x, Y, w, arg>>

\* model.setInferenceException(b)
Call_setInferenceException ==
    /\ pc = "ready"
    /\ \E b \in BOOLEAN :
          /\ self' = setInferenceException(self, b)
          /\ arg' = <<b>>
          /\ ret' = [ret EXCEPT !.setInferenceException = Return(self'.inference_exception)]
    /\ UNCHANGED <<pc, args, x, Y, w>>

NextSchema == Construct

NextLabels == Call_check_size_xy

NextInstance == Call_check_size_x

NextUnary == Call_get_unary_potentials

Next ==
    \/ Construct
    \/ Call_check_size_x
    \/ Call_check_size_xy
    \/ Call_get_unary_potentials
    \/ Call_setInferenceException

SpecSchema == InitSchema /\ [][NextSchema]_vars

SpecLabels == InitLabels /\ [][NextLabels]_vars

SpecInstance == InitInstance /\ [][NextInstance]_vars

SpecUnary == InitUnary /\ [][NextUnary]_vars

Spec == Init /\ [][Next]_vars

-----------------------------------------------------------------------------
(* Construction: the schema errors and the class weights.                   *)

Built_ == pc = "ready"

\* Class weights were passed for some types: a list that is not empty.
SomeClassWeights == ~IsNone(args.l_class_weight) /\ args.l_class_weight.items # <<>>

\* A class weight vector passed for a type has not as many entries as the
\* type has states.
ClassWeightLengthDiffers ==
    /\ SomeClassWeights
    /\ \E i \in 1..Min2(Len(args.l_class_weight.items), Len(args.l_n_states)) :
          Len(args.l_class_weight.items[i]) # args.l_n_states[i]

RejectedArgs ==
    \/ Len(args.l_n_states) # args.n_types
    \/ ~IsNone(args.l_n_features) /\ Len(args.l_n_features.items) # args.n_types
    \/ SomeClassWeights /\ Len(args.l_class_weight.items) < args.n_types
    \/ ClassWeightLengthDiffers

SchemaError == ret.init.kind = "raise" /\ ret.init.exc = "ValueError" /\ self = None

DefaultClassWeights ==
    /\ \A t \in 1..self.n_types :
          /\ Len(self.l_class_weight[t]) = self.l_n_states[t]
          /\ \A i \in 1..self.l_n_states[t] : self.l_class_weight[t][i] = 1
    /\ Len(self.class_weight) = self.n_states
    /\ self.n_states = Sum(self.l_n_states)

\* C7: the constructor fails with the schema error (ValueError), and leaves no
\* model, whenever l_n_states has not n_types entries, l_n_features is given
\* with another length than n_types, class weights are given for some but not
\* all types, or a class weight vector has not one entry per state of its
\* type; without class weights every type gets all ones, and the concatenated
\* vector has total_states entries.
C7_SchemaRejection ==
    pc # "new" =>
       /\ RejectedArgs => SchemaError
       /\ (Built_ /\ ~SomeClassWeights) => DefaultClassWeights

\* The same with l_n_features given: the constructor of a model whose
\* l_n_features is None fails with a TypeError in sum(self.l_n_features),
\* whatever the other arguments are.
C7_SchemaRejectionFeaturesGiven ==
    (pc # "new" /\ ~IsNone(args.l_n_features)) =>
       /\ RejectedArgs => SchemaError
       /\ (Built_ /\ ~SomeClassWeights) => DefaultClassWeights

-----------------------------------------------------------------------------
(* The offsets of the edge states.                                          *)

\* The pairs of types that come before (t1, t2) in row-major order.
PairsBefore(t1, t2) ==
    {q \in (0..(self.n_types - 1)) \X (0..(self.n_types - 1)) :
        q[1] < t1 \/ (q[1] = t1 /\ q[2] < t2)}

RECURSIVE SumOver(_, _)
SumOver(S, f) ==
    IF S = {} THEN 0
    ELSE LET e == CHOOSE e \in S : TRUE IN f[e] + SumOver(S \ {e}, f)

EdgeStatesOfPair == [q \in (0..(self.n_types - 1)) \X (0..(self.n_types - 1)) |->
                        self.l_n_states[q[1] + 1] * self.l_n_states[q[2] + 1]]

EdgeRange(q) ==
    {e \in 0..(self.n_states * self.n_states) :
        self.a_startindex_by_typ_typ[q] <= e
        /\ e < self.a_startindex_by_typ_typ[q] + EdgeStatesOfPair[q]}

\* C9: the start offset of the pair (t1, t2) is the sum of states(a) * states(b)
\* over the pairs (a, b) before it in row-major order; the ranges of the
\* n_types^2 pairs are pairwise disjoint and cover [0, total_states^2).
C9_EdgeOffsetTiling ==
    Built_ =>
       /\ \A q \in DOMAIN self.a_startindex_by_typ_typ :
             self.a_startindex_by_typ_typ[q] = SumOver(PairsBefore(q[1], q[2]), EdgeStatesOfPair)
       /\ \A q1, q2 \in DOMAIN self.a_startindex_by_typ_typ :
             q1 # q2 => EdgeRange(q1) \cap EdgeRange(q2) = {}
       /\ UNION {EdgeRange(q) : q \in DOMAIN self.a_startindex_by_typ_typ}
             = 0..(self.n_states * self.n_states - 1)
       /\ Sum(self.l_n_edge_states) = self.n_states * self.n_states

C9_Witness ==
    /\ Built_
    /\ self.n_types = 2
    /\ self.l_n_states[1] # self.l_n_states[2]
    /\ self.a_startindex_by_typ_typ[<<1, 1>>] > 0

-----------------------------------------------------------------------------
(* The label validator.                                                     *)

Types == 0..(self.n_types - 1)

\* The number of nodes of type t in the instance x; a missing table has none.
Count(t) == IF t + 1 > Len(x.nodes) THEN 0 ELSE NodeCount(x.nodes[t + 1])

\* The position in Y of the first label of type t.
RunStart(t) == SumOver(0..(t - 1), [u \in 0..(t - 1) |-> Count(u)])

\* The label of the i-th node of type t.
LabelOf(t, i) == Y.data[RunStart(t) + i + 1]

InRangeOf(u, label) ==
    self.l_type_startindex[u + 1] <= label /\ label < self.l_type_startindex[u + 2]

LabelsGiven == Built_ /\ ret._check_size_xy # NotCalled /\ ~IsNone(Y)

RightLength == Len(Y.data) = SumOver(Types, [u \in Types |-> Count(u)])

\* C1: when _check_size_xy returns True, the label of every node of type t is
\* in [type_label_bounds[t], type_label_bounds[t+1]) and in the range of no
\* other type, also when two types have the same number of states.
C1_LabelRangeSound ==
    (Built_ /\ ret._check_size_xy = Return("True")) =>
       \A t \in Types : \A i \in 0..(Count(t) - 1) :
          /\ InRangeOf(t, LabelOf(t, i))
          /\ \A u \in Types \ {t} : ~InRangeOf(u, LabelOf(t, i))

C1_Witness ==
    /\ Built_
    /\ ret._check_size_xy = Return("True")
    /\ self.n_types = 2
    /\ self.l_n_states[1] = self.l_n_states[2]
    /\ Count(0) >= 1
    /\ Count(1) >= 1

\* C2: a label vector with one label per node whose run of type t lies in
\* [type_label_bounds[t], type_label_bounds[t+1]), for every type t, is
\* accepted, also when a type has no node: _check_size_xy returns True.
C2_ValidLabelsAccepted ==
    (/\ LabelsGiven
     /\ RightLength
     /\ \A t \in Types : \A i \in 0..(Count(t) - 1) : InRangeOf(t, LabelOf(t, i)))
       => ret._check_size_xy = Return("True")

\* The same for the instances in which every type has a node.
C2_ValidLabelsAcceptedNoEmptyType ==
    (/\ LabelsGiven
     /\ RightLength
     /\ \A t \in Types : Count(t) > 0
     /\ \A t \in Types : \A i \in 0..(Count(t) - 1) : InRangeOf(t, LabelOf(t, i)))
       => ret._check_size_xy = Return("True")

HasNegativeLabel == \E k \in 1..Len(Y.data) : Y.data[k] < 0

\* The run of type t fails a check of the validator: it is empty, or one of
\* its labels is out of the range of t.
RunFails(t) == Count(t) = 0 \/ \E i \in 0..(Count(t) - 1) : ~InRangeOf(t, LabelOf(t, i))

RunHasNegative(t) == \E i \in 0..(Count(t) - 1) : LabelOf(t, i) < 0

\* The first type whose run fails a check.
FirstFailingRun == CHOOSE t \in Types : RunFails(t) /\ \A u \in 0..(t - 1) : ~RunFails(u)

\* C8 as claimed: a label vector of the right length with a negative value is
\* rejected with InconsistentLabel.
C8_NegativeIsInconsistentLabel ==
    (LabelsGiven /\ RightLength /\ HasNegativeLabel) =>
       (ret._check_size_xy.kind = "raise" /\ ret._check_size_xy.exc = "InconsistentLabel")

\* C8: a label vector of the right length with a negative value is always
\* rejected; the error is a ValueError when the first run that fails a check
\* holds a negative value or is empty, and InconsistentLabel when that run
\* holds labels out of its range none of which is negative.
C8_NegativeRejected ==
    (LabelsGiven /\ RightLength /\ HasNegativeLabel) =>
       /\ ret._check_size_xy.kind = "raise"
       /\ ret._check_size_xy.exc =
             IF Count(FirstFailingRun) = 0 \/ RunHasNegative(FirstFailingRun)
             THEN "ValueError" ELSE "InconsistentLabel"

C8_Witness ==
    /\ LabelsGiven /\ RightLength
    /\ self.n_types = 2
    /\ Count(0) > 0 /\ ~RunFails(0)
    /\ RunHasNegative(1)
    /\ ret._check_size_xy.kind = "raise"
    /\ ret._check_size_xy.exc = "ValueError"
    /\ ret._check_size_xy.typ = <<1>>

-----------------------------------------------------------------------------
(* The instance validator.                                                  *)

Checked == Built_ /\ ret._check_size_x # NotCalled

\* One table per type, each with the declared number of columns.
NodesOK ==
    /\ Len(x.nodes) = self.n_types
    /\ \A k \in 1..Len(x.nodes) :
          ~IsNone(x.nodes[k]) /\ x.nodes[k].shape[2] = self.l_n_features[k]

TypePairs == Types \X Types

EdgesOf(q) == x.edges[q[1] * self.n_types + q[2] + 1]

PairTable(e) == ~IsNone(e) /\ e.ndim = 2 /\ e.shape[2] = 2

ShapesOK ==
    /\ Len(x.edges) = self.n_types * self.n_types
    /\ \A k \in 1..Len(x.edges) : IsNone(x.edges[k]) \/ PairTable(x.edges[k])

NegativeEnd(e) == \E r \in 1..Len(e.data) : e.data[r][1] < 0 \/ e.data[r][2] < 0

SourceOut(q) == \E r \in 1..Len(EdgesOf(q).data) : EdgesOf(q).data[r][1] >= Count(q[1])

TargetOut(q) == \E r \in 1..Len(EdgesOf(q).data) : EdgesOf(q).data[r][2] >= Count(q[2])

\* The edge table of the pair q has an edge with a negative end, a source
\* that is no node of the first type or a target that is no node of the second.
Dangling(q) ==
    /\ PairTable(EdgesOf(q))
    /\ NegativeEnd(EdgesOf(q)) \/ SourceOut(q) \/ TargetOut(q)

FirstDangling(q) == Dangling(q) /\ \A p \in PairsBefore(q[1], q[2]) : ~Dangling(p)

\* The sides on which the table of the pair q has a bad end.
BadSides(q) ==
    {"source" : r \in {r \in 1..Len(EdgesOf(q).data) :
                          EdgesOf(q).data[r][1] < 0 \/ EdgesOf(q).data[r][1] >= Count(q[1])}}
    \cup
    {"target" : r \in {r \in 1..Len(EdgesOf(q).data) :
                          EdgesOf(q).data[r][2] < 0 \/ EdgesOf(q).data[r][2] >= Count(q[2])}}

\* The side an error message of the edge checks names.  The message for a
\* negative end is the same for a negative source and a negative target.
SideNamed(msg) ==
    CASE msg = "At least one edge starts from a non-existing node index: type %d to type %d"
            -> "source"
      [] msg = "At least one edge points to a non-existing node index: type %d to type %d"
            -> "target"
      [] msg = "At least one edge points to negative and therefore invalid node index: type %d to type %d"
            -> "either"
      [] OTHER -> "no edge error"

\* C3 as claimed: when the edge table of a pair of types has a negative end,
\* a source out of range or a target out of range, _check_size_x raises an
\* error that names the pair of types and the side that failed.
C3_DanglingEdgeNamesPairAndSide ==
    (Checked /\ NodesOK /\ ShapesOK) =>
       \A q \in TypePairs : FirstDangling(q) =>
          /\ ret._check_size_x.kind = "raise"
          /\ ret._check_size_x.exc = "ValueError"
          /\ ret._check_size_x.typ = q
          /\ SideNamed(ret._check_size_x.msg) \in BadSides(q)

\* C3: _check_size_x never returns True for an instance with such an edge
\* table; its error names the first such pair of types in row-major order,
\* and the side (the source before the target) only when no end of that
\* table is negative: the error for a negative end names the pair alone.
C3_DanglingEdgeRejected ==
    (Checked /\ NodesOK /\ ShapesOK) =>
       \A q \in TypePairs :
          /\ Dangling(q) => ret._check_size_x.kind = "raise"
          /\ FirstDangling(q) =>
                /\ ret._check_size_x.exc = "ValueError"
                /\ ret._check_size_x.typ = q
                /\ SideNamed(ret._check_size_x.msg) =
                      IF NegativeEnd(EdgesOf(q)) THEN "either"
                      ELSE IF SourceOut(q) THEN "source" ELSE "target"

C3_Witness ==
    /\ Checked /\ NodesOK /\ ShapesOK
    /\ self.n_types = 2
    /\ FirstDangling(<<0, 1>>)
    /\ ~NegativeEnd(EdgesOf(<<0, 1>>))
    /\ ~SourceOut(<<0, 1>>)
    /\ Count(0) = 1 /\ Count(1) = 1
    /\ SideNamed(ret._check_size_x.msg) = "target"

\* C4 as claimed: an instance with one table of the declared width per type
\* whose edge tables are each missing, empty (whatever its shape) or a table
\* of pairs in range is accepted.
C4_EmptyEdgeTablesOfAnyShapeAccepted ==
    (/\ Checked /\ NodesOK
     /\ Len(x.edges) = self.n_types * self.n_types
     /\ \A q \in TypePairs :
           \/ IsNone(EdgesOf(q))
           \/ EdgesOf(q).shape[1] = 0
           \/ PairTable(EdgesOf(q)) /\ ~Dangling(q))
       => ret._check_size_x = Return("True")

\* C4: such an instance is accepted when each of its edge tables is missing
\* or a two-dimensional table of two columns, with no row or with ends in
\* range; an edge table of another shape is rejected, empty or not.
C4_ValidInstanceAccepted ==
    /\ (Checked /\ NodesOK /\ ShapesOK /\ \A q \in TypePairs : ~Dangling(q))
          => ret._check_size_x = Return("True")
    /\ (/\ Checked /\ NodesOK
        /\ \E k \in 1..Len(x.edges) : ~IsNone(x.edges[k]) /\ ~PairTable(x.edges[k]))
          => (/\ ret._check_size_x.kind = "raise"
              /\ ret._check_size_x.exc = "ValueError"
              /\ ret._check_size_x.msg \in {"Expected a 2 dimensions edge arrays",
                                            "Expected 2 columns in edge arrays"})

C4_Witness ==
    /\ Checked /\ NodesOK /\ ShapesOK
    /\ ret._check_size_x = Return("True")
    /\ self.n_types = 2
    /\ \E q \in TypePairs : PairTable(EdgesOf(q)) /\ EdgesOf(q).shape[1] = 0
    /\ \E q \in TypePairs : PairTable(EdgesOf(q)) /\ EdgesOf(q).shape[1] > 0

-----------------------------------------------------------------------------
(* The unary potentials.                                                    *)

Computed == Built_ /\ ret._get_unary_potentials # NotCalled

\* The instance passes the checks of the instance validator.
StructurallyValid == NodesOK /\ ShapesOK /\ \A q \in TypePairs : ~Dangling(q)

\* The number of weights of the types before t.
WeightOffset(t) ==
    SumOver(0..(t - 1), [u \in 0..(t - 1) |-> self.l_n_states[u + 1] * self.l_n_features[u + 1]])

\* The score of state s for the i-th node of type t.
Score(t, i, s) ==
    LET F == self.l_n_features[t + 1] IN
    SumOver(0..(F - 1),
            [f \in 0..(F - 1) |-> x.nodes[t + 1].data[i + 1][f + 1]
                                     * w[WeightOffset(t) + s * F + f + 1]])

\* C5: for a structurally valid instance and a weight vector of size_unaries
\* entries, _get_unary_potentials returns one table per type, in the order of
\* the types; the table of type t has one row per node of t and one column per
\* state of t, and its entry (i, s) is the sum over the features f of
\* features_t[i][f] * w[off_t + s * n_features_t + f].
C5_UnaryPotentials ==
    (Computed /\ StructurallyValid /\ Len(w) = self.size_unaries) =>
       /\ ret._get_unary_potentials.kind = "return"
       /\ Len(ret._get_unary_potentials.value) = self.n_types
       /\ \A t \in Types :
             LET table == ret._get_unary_potentials.value[t + 1] IN
             /\ table.shape = <<Count(t), self.l_n_states[t + 1]>>
             /\ Len(table.data) = Count(t)
             /\ \A i \in 0..(Count(t) - 1) :
                   /\ Len(table.data[i + 1]) = self.l_n_states[t + 1]
                   /\ \A s \in 0..(self.l_n_states[t + 1] - 1) :
                         table.data[i + 1][s + 1] = Score(t, i, s)

C5_Witness ==
    /\ Computed /\ StructurallyValid /\ Len(w) = self.size_unaries
    /\ self.n_types = 2
    /\ self.l_n_states = <<1, 2>>
    /\ self.l_n_features = <<1, 2>>
    /\ Count(0) = 1 /\ Count(1) = 1
    /\ ret._get_unary_potentials.kind = "return"
    /\ ret._get_unary_potentials.value[2].data[1] = <<0, 1>>

\* C6: size_unaries is the sum over the types of states * features, and no
\* call of _get_unary_potentials ends its loop with another offset: the
\* assertion i_w == size_unaries never fails.
C6_ExactWeightConsumption ==
    Built_ =>
       /\ self.size_unaries = WeightOffset(self.n_types)
       /\ Computed => ~(/\ ret._get_unary_potentials.kind = "raise"
                        /\ ret._get_unary_potentials.exc = "AssertionError")

\* The same for the instances with a table for every type.
C6_ExactWeightConsumptionTablePerType ==
    (Built_ /\ Len(x.nodes) >= self.n_types) =>
       /\ self.size_unaries = WeightOffset(self.n_types)
       /\ Computed => ~(/\ ret._get_unary_potentials.kind = "raise"
                        /\ ret._get_unary_potentials.exc = "AssertionError")

-----------------------------------------------------------------------------
(* Purity of the calls and the inference exception toggle.                  *)

Frozen(s) == [s EXCEPT !.inference_exception = FALSE]

Validators == {"_check_size_x", "_check_size_xy", "_get_unary_potentials"}

====
